---- MODULE Spec2Model ----
(***************************************************************************)
(* FluxTotemBackend (src/server.js): orders, payment attempts, the Mercado *)
(* Pago gateway calls and the webhook reconciliation, as a state machine.  *)
(*                                                                         *)
(* Every HTTP handler is an async function.  A handler runs without        *)
(* interruption from one `await` to the next, so each action below is one  *)
(* such segment: the awaited operation (a MySQL statement, a provider      *)
(* call) takes effect and the code after it runs up to the next await.     *)
(* Handlers of different requests interleave at their awaits.              *)
(***************************************************************************)
EXTENDS Integers, Sequences, FiniteSets, TLC

(***************************************************************************)
(* Bounds of the model.                                                    *)
(***************************************************************************)
MaxReq == 2        \* requests in flight at once (a finished slot is reused)
                   \* in Spec: one request of the kiosk, the others webhooks
MaxMp == 2         \* objects the provider holds (orders / payments created)
MaxHits == 2       \* webhook requests of one window in Spec
MaxOver == 2       \* webhook requests beyond the limit in SpecRate, SpecWindow

(***************************************************************************)
(* Program constants.                                                      *)
(***************************************************************************)
win == 60000       \* webhookRateLimit: const win = 60_000
max == 120         \* webhookRateLimit: const max = 120
MaxRefLen == 64    \* safeExternalRef: s.length > 64

H == 1..MaxReq

(***************************************************************************)
(* Values.  A string that the code takes apart (externalRef) is a sequence *)
(* of one-character strings; identifiers are tagged tuples; an absent /    *)
(* falsy value (undefined, null, "", 0) is NoId, NoRef or Absent.          *)
(***************************************************************************)
NoId == <<>>
NoRef == <<>>
Absent == "<absent>"
OrdId(k) == <<"ord", k>>
\* (PayIdReused: the provider answering every creation with one payment id)
PayIdReused(k) == <<"pay", 1>>
PayId(k) == <<"pay", k>>

Upper == {"A", "B", "C", "D", "E", "F", "G", "H", "I", "J", "K", "L", "M",
          "N", "O", "P", "Q", "R", "S", "T", "U", "V", "W", "X", "Y", "Z"}
Lower == {"a", "b", "c", "d", "e", "f", "g", "h", "i", "j", "k", "l", "m",
          "n", "o", "p", "q", "r", "s", "t", "u", "v", "w", "x", "y", "z"}
Digits == {"0", "1", "2", "3", "4", "5", "6", "7", "8", "9"}
RefChars == Upper \cup Lower \cup Digits \cup {"_", "-"}
WhiteSpace == {" ", "\t", "\n"}

RECURSIVE TrimStart(_)
TrimStart(s) ==
    IF s # <<>> /\ Head(s) \in WhiteSpace THEN TrimStart(Tail(s)) ELSE s

RECURSIVE TrimEnd(_)
TrimEnd(s) ==
    IF s # <<>> /\ s[Len(s)] \in WhiteSpace
    THEN TrimEnd(SubSeq(s, 1, Len(s) - 1)) ELSE s

Trim(s) == TrimEnd(TrimStart(s))

\* A value of a request body: a string, or something that is not one (a
\* number, an object, undefined).
Str(s) == [isString |-> TRUE, s |-> s]
NotAString == [isString |-> FALSE, s |-> <<>>]

\* safeExternalRef(v): the trimmed reference, or NoRef for `null`.
safeExternalRef(v) ==
    IF ~v.isString THEN NoRef
    ELSE LET s == Trim(v.s) IN
         IF Len(s) < 1 \/ Len(s) > MaxRefLen THEN NoRef
         ELSE IF \E i \in 1..Len(s) : s[i] \notin RefChars THEN NoRef
         ELSE s

\* The amount of a request body: absent (null / undefined), not a number
\* (Number(v) is NaN), or a number, held in cents.
NullAmount == [t |-> "null", v |-> 0]
NaNAmount == [t |-> "nan", v |-> 0]
Num(c) == [t |-> "num", v |-> c]

\* !Number.isFinite(amountNum) || amountNum <= 0
AmountInvalid(a) == a.t # "num" \/ a.v <= 0

\* String.prototype.toLowerCase on the statuses of the model.
toLowerCase(s) ==
    CASE s = "APPROVED" -> "approved"
      [] s = "Approved" -> "approved"
      [] OTHER -> s

\* String(x || dflt)
StringOr(x, dflt) == IF x = Absent THEN dflt ELSE x

(***************************************************************************)
(* Inputs.                                                                 *)
(***************************************************************************)
LongRef == [i \in 1..(MaxRefLen + 1) |-> "x"]
RawRefs == {Str(<<"A">>), Str(<<" ", "A", " ">>), Str(<<"B">>),
            Str(<<"A", "!">>), Str(<<"A", " ", "B">>), Str(<<" ">>), Str(<<>>),
            Str(LongRef), NotAString}
Amounts == {NullAmount, NaNAmount, Num(0), Num(1990)}
OrderBodies == [externalRef : RawRefs, amount : Amounts]
\* The bodies of Spec: one reference, so one order.
OneOrderBodies ==
    {[externalRef |-> Str(<<"A">>), amount |-> Num(1990)],
     [externalRef |-> Str(<<" ", "A", " ">>), amount |-> Num(1990)],
     [externalRef |-> Str(<<"A", "!">>), amount |-> Num(1990)],
     [externalRef |-> NotAString, amount |-> Num(1990)],
     [externalRef |-> Str(<<"A">>), amount |-> NullAmount],
     [externalRef |-> Str(<<"A">>), amount |-> Num(0)]}
\* orderId 0 is a malformed id (not a number, or <= 0).
PointBodies ==
    {[orderId |-> 0, terminalId |-> "T1"], [orderId |-> 1, terminalId |-> Absent],
     [orderId |-> 1, terminalId |-> "T1"], [orderId |-> 2, terminalId |-> "T1"]}
PixBodies == [orderId : {0, 1, 2}]
IP == "ip1"
Secrets == {Absent, "s3cret"}
SecretHeaders == {Absent, "s3cret", "wrong"}
Event(type, topic, data_id, id) ==
    [type |-> type, topic |-> topic, data_id |-> data_id, id |-> id]
WebhookBodies ==
    {Event("payment", Absent, PayId(k), NoId) : k \in 1..MaxMp}
    \cup {Event("payment", Absent, NoId, NoId),
          Event(Absent, "payments", NoId, PayId(1)),
          Event(Absent, Absent, PayId(1), NoId),
          Event("order", Absent, OrdId(1), NoId),
          Event(Absent, "payments", NoId, NoId)}
\* A body that names no payment.
NoIdBodies == {b \in WebhookBodies : b.data_id = NoId /\ b.id = NoId}
\* Ids of GET /mp/orders/:id and POST /mp/orders/:id/cancel.
PathIds == {OrdId(1), OrdId(2), PayId(1)}
\* Statuses the provider moves a payment to.
MpStatuses == {"pending", "approved", "APPROVED", "rejected"}
Instants == {0, win, win + 1}

(***************************************************************************)
(* State.                                                                  *)
(***************************************************************************)
VARIABLES
    orders,       \* table orders: row i has id i
    payments,     \* table payments: row i has id i
    mp,           \* what the provider holds: object k has ids OrdId(k), PayId(k)
    req,          \* the handler running in each slot: its position and locals
    webhookHits,  \* the Map of webhookRateLimit
    now,          \* Date.now()
    secret,       \* process.env.MP_WEBHOOK_SECRET
    admitted      \* history: webhook requests of the address admitted at each
                  \* instant of the window that ends now

vars == <<orders, payments, mp, req, webhookHits, now, secret, admitted>>

NoData == [id |-> NoId, status |-> Absent, external_reference |-> NoRef,
           payment_id |-> NoId]

\* webhookHits.get(key) of a key the Map does not hold.
NoRec == [has |-> FALSE, t |-> 0, n |-> 0]

\* A free slot.
Idle ==
    [op |-> "none", pc |-> "idle", ref |-> NoRef, amount |-> 0, orderId |-> 0,
     terminalId |-> Absent, dataId |-> NoId, data |-> NoData, ordId |-> 0,
     resp |-> 0, calls |-> 0, failed |-> FALSE,
     \* history of the request, for the properties: the reference the body
     \* carried, the secret header, whether the body named a payment, the
     \* order's status before the handler's UPDATE
     want |-> NoRef, hdr |-> Absent, named |-> FALSE, before |-> "",
     \* what GET /orders/:id answered: the ids of the order and of the
     \* payment (0 for null)
     got |-> [order |-> 0, payment |-> 0]]

Free(h) == req[h].pc \in {"idle", "done"}

\* The handler returns: its locals go, what it answered and did is kept.
Finish(r) ==
    [r EXCEPT !.pc = "done", !.data = NoData, !.ordId = 0, !.amount = 0,
              !.terminalId = Absent, !.ref = NoRef, !.dataId = NoId,
              !.orderId = 0]

Respond(r, code) == Finish([r EXCEPT !.resp = code])

Init ==
    /\ orders = <<>>
    /\ payments = <<>>
    /\ mp = <<>>
    /\ req = [h \in H |-> Idle]
    /\ webhookHits = [ip \in {IP} |-> NoRec]
    /\ now = 0
    /\ secret = Absent
    /\ admitted = [t \in Instants |-> 0]

(***************************************************************************)
(* MySQL.  A statement either takes effect or throws; `TRUE` below is the  *)
(* statement throwing (connection lost, server error).                     *)
(***************************************************************************)
\* SELECT * FROM orders WHERE id = ?  -> the id, or 0 for no row
SelectOrderById(id) == IF id \in DOMAIN orders THEN id ELSE 0

\* SELECT * FROM orders WHERE external_ref = ?  -> the id, or 0 for no row
SelectOrderByRef(rows, ref) ==
    IF \E i \in DOMAIN rows : rows[i].external_ref = ref
    THEN CHOOSE i \in DOMAIN rows : rows[i].external_ref = ref
    ELSE 0

\* UNIQUE KEY uq_orders_external_ref
DupEntry(ref) == \E i \in DOMAIN orders : orders[i].external_ref = ref

\* INSERT INTO orders (external_ref, status, amount) VALUES (?, 'created', ?)
InsertOrder(ref, amount) ==
    Append(orders, [external_ref |-> ref, status |-> "created", amount |-> amount])

\* UPDATE orders SET status = ? WHERE id = ?
\* (SetOrderStatusIfAttempt: the same for an order that has an attempt row)
SetOrderStatusIfAttempt(rows, id, status) ==
    IF \E j \in DOMAIN payments : payments[j].order_id = id
    THEN [rows EXCEPT ![id].status = status] ELSE rows
SetOrderStatus(rows, id, status) == [rows EXCEPT ![id].status = status]


(***************************************************************************)
(* POST /orders                                                            *)
(***************************************************************************)
\* The reference a request body carries, as the data model defines one: the
\* string without surrounding whitespace, 1..64 characters of the charset.
CarriedRef(v) ==
    IF v.isString /\ Len(Trim(v.s)) \in 1..MaxRefLen
       /\ \A i \in 1..Len(Trim(v.s)) : Trim(v.s)[i] \in RefChars
    THEN Trim(v.s) ELSE NoRef

\* catch (e): e.code === "ER_DUP_ENTRY" ? 409 : 500
\* (OrderErrorGeneric: the duplicate answered like any other MySQL error)
OrderErrorGeneric(dup) == 500
OrderError(dup) == IF dup THEN 409 ELSE 500

OrderStart(h, body) ==
    /\ Free(h)
    /\ LET externalRef == safeExternalRef(body.externalRef)
           r == [Idle EXCEPT !.op = "order",
                             !.want = IF AmountInvalid(body.amount) THEN NoRef
                                      ELSE CarriedRef(body.externalRef)]
       IN req' = [req EXCEPT ![h] =
            IF externalRef = NoRef \/ body.amount = NullAmount THEN Respond(r, 400)
            ELSE IF AmountInvalid(body.amount) THEN Respond(r, 400)
            ELSE [r EXCEPT !.pc = "insert", !.ref = externalRef,
                           !.amount = body.amount.v]]
    /\ UNCHANGED <<orders, payments, mp, webhookHits, now, secret, admitted>>

OrderInsert(h) ==
    /\ req[h].op = "order" /\ req[h].pc = "insert"
    /\ \/ /\ ~DupEntry(req[h].ref)
          /\ orders' = InsertOrder(req[h].ref, req[h].amount)
          /\ req' = [req EXCEPT ![h] = Respond(@, 200)]
       \/ /\ DupEntry(req[h].ref)
          /\ req' = [req EXCEPT ![h] = Respond(@, OrderError(TRUE))]
          /\ UNCHANGED orders
       \/ /\ req' = [req EXCEPT ![h] = Respond([@ EXCEPT !.failed = TRUE],
                                               OrderError(FALSE))]
          /\ UNCHANGED orders
    /\ UNCHANGED <<payments, mp, webhookHits, now, secret, admitted>>

(***************************************************************************)
(* GET /orders/:id                                                         *)
(***************************************************************************)
\* if (!ord) return res.status(404)
OrderNotFound(r) == Respond(r, 404)

\* SELECT * FROM payments WHERE order_id = ? ORDER BY id DESC LIMIT 1
\* -> the id of the row, or 0 for no row
\* (LatestPaymentAny: the same without the WHERE)
LatestPaymentAny(id) == Len(payments)
LatestPayment(id) ==
    LET S == {j \in DOMAIN payments : payments[j].order_id = id}
    IN IF S = {} THEN 0 ELSE CHOOSE j \in S : \A k \in S : k <= j

\* Number(req.params.id); 0 is an id that is not a number, or <= 0
GetOrderStart(h, id) ==
    /\ Free(h)
    /\ LET r == [Idle EXCEPT !.op = "get"]
       IN req' = [req EXCEPT ![h] =
            IF id <= 0 THEN Respond(r, 400)
            ELSE [r EXCEPT !.pc = "select", !.orderId = id]]
    /\ UNCHANGED <<orders, payments, mp, webhookHits, now, secret, admitted>>

\* await db.execute("SELECT * FROM orders WHERE id = ?")
GetOrderSelect(h) ==
    /\ req[h].op = "get" /\ req[h].pc = "select"
    /\ \/ LET ord == SelectOrderById(req[h].orderId)
          IN req' = [req EXCEPT ![h] =
               IF ord = 0 THEN OrderNotFound(@)
               ELSE [@ EXCEPT !.pc = "latest", !.ordId = ord]]
       \/ req' = [req EXCEPT ![h] = Respond([@ EXCEPT !.failed = TRUE], 500)]
    /\ UNCHANGED <<orders, payments, mp, webhookHits, now, secret, admitted>>

\* await db.execute("SELECT * FROM payments ..."), res.json({ order, payment })
GetOrderLatest(h) ==
    /\ req[h].op = "get" /\ req[h].pc = "latest"
    /\ \/ req' = [req EXCEPT ![h] =
             Respond([@ EXCEPT !.got = [order |-> req[h].ordId,
                                        payment |-> LatestPayment(req[h].orderId)]],
                     200)]
       \/ req' = [req EXCEPT ![h] = Respond([@ EXCEPT !.failed = TRUE], 500)]
    /\ UNCHANGED <<orders, payments, mp, webhookHits, now, secret, admitted>>

(***************************************************************************)
(* The provider (api.mercadopago.com).                                     *)
(***************************************************************************)
\* The body of a successful POST /v1/orders or POST /v1/payments, and of
\* GET /v1/payments/{id}, for object k.
MpOrderData(k) ==
    [id |-> OrdId(k), status |-> mp[k].status,
     external_reference |-> mp[k].external_reference, payment_id |-> PayId(k)]
MpPaymentData(k) ==
    [id |-> PayId(k), status |-> mp[k].status,
     external_reference |-> mp[k].external_reference, payment_id |-> NoId]

MpCreate(kind, status, ref) ==
    Append(mp, [kind |-> kind, status |-> status, external_reference |-> ref])

\* The provider moves a payment on (the customer pays, the bank rejects...).
MpAdvance(k, s) ==
    /\ k \in DOMAIN mp
    /\ mp[k].status \notin {s, "canceled"}
    /\ mp' = [mp EXCEPT ![k].status = s]
    /\ UNCHANGED <<orders, payments, req, webhookHits, now, secret, admitted>>

(***************************************************************************)
(* POST /payments/point and POST /payments/pix                             *)
(***************************************************************************)
\* INSERT INTO payments (order_id, provider, mp_order_id, mp_payment_id,
\*                       status, terminal_id, raw_json) VALUES (...)
InsertPayment(row) == Append(payments, row)

\* [orderId, mpOrderId, mpPaymentId, status, String(terminalId), JSON.stringify(r.data)]
PointRow(r) ==
    [order_id |-> r.orderId, provider |-> "mp_point_v1_orders",
     mp_order_id |-> r.data.id, mp_payment_id |-> r.data.payment_id,
     status |-> StringOr(r.data.status, "created"),
     terminal_id |-> r.terminalId, raw_json |-> r.data]

\* [orderId, paymentId, paymentId, status, JSON.stringify(r.data)]
PixRow(r) ==
    [order_id |-> r.orderId, provider |-> "pix",
     mp_order_id |-> r.data.id, mp_payment_id |-> r.data.id,
     status |-> StringOr(r.data.status, "created"),
     terminal_id |-> Absent, raw_json |-> r.data]

\* UPDATE orders SET status = 'awaiting_payment' WHERE id = ?
\* (AwaitPaymentUnlessPaid: the same with AND status <> 'paid')
AwaitPaymentUnlessPaid(id) ==
    IF orders[id].status = "paid" THEN orders
    ELSE SetOrderStatus(orders, id, "awaiting_payment")
AwaitPayment(id) == SetOrderStatus(orders, id, "awaiting_payment")

\* catch (e): res.status(500)
\* (Catch500Retry: a failed provider call issued once more)
Catch500Retry(r) ==
    IF r.pc = "post" /\ r.calls < 2
    THEN [r EXCEPT !.calls = @ + 1, !.failed = TRUE]
    ELSE Respond([r EXCEPT !.failed = TRUE], 500)
Catch500(r) == Respond([r EXCEPT !.failed = TRUE], 500)

PointStart(h, body) ==
    /\ Free(h)
    /\ LET r == [Idle EXCEPT !.op = "point"]
       IN req' = [req EXCEPT ![h] =
            IF body.orderId <= 0 \/ body.terminalId = Absent THEN Respond(r, 400)
            ELSE [r EXCEPT !.pc = "select", !.orderId = body.orderId,
                           !.terminalId = body.terminalId]]
    /\ UNCHANGED <<orders, payments, mp, webhookHits, now, secret, admitted>>

PixStart(h, body) ==
    /\ Free(h)
    /\ LET r == [Idle EXCEPT !.op = "pix"]
       IN req' = [req EXCEPT ![h] =
            IF body.orderId <= 0 THEN Respond(r, 400)
            ELSE [r EXCEPT !.pc = "select", !.orderId = body.orderId]]
    /\ UNCHANGED <<orders, payments, mp, webhookHits, now, secret, admitted>>

\* if (!ord) return res.status(404)
\* (NotFoundAfterCall: the test made after the provider call was issued)
NotFoundAfterCall(r) == Respond([r EXCEPT !.calls = @ + 1], 404)
NotFound(r) == Respond(r, 404)

\* SELECT * FROM orders WHERE id = ?, then the payload and the provider call
PaymentSelect(h, op) ==
    /\ req[h].op = op /\ req[h].pc = "select"
    /\ \/ LET ord == SelectOrderById(req[h].orderId)
          IN req' = [req EXCEPT ![h] =
               IF ord = 0 THEN NotFound(@)
               ELSE [@ EXCEPT !.pc = "post", !.ref = orders[ord].external_ref,
                              !.calls = @ + 1]]
       \/ req' = [req EXCEPT ![h] = Catch500(@)]
    /\ UNCHANGED <<orders, payments, mp, webhookHits, now, secret, admitted>>

PointSelect(h) == PaymentSelect(h, "point")
PixSelect(h) == PaymentSelect(h, "pix")

\* await axios.post(...): the provider creates the object and answers; or it
\* creates it and the answer is lost (timeout); or it refuses.
PaymentPost(h, op, kind, status) ==
    /\ req[h].op = op /\ req[h].pc = "post"
    /\ \/ /\ Len(mp) < MaxMp
          /\ mp' = MpCreate(kind, status, req[h].ref)
          /\ req' = [req EXCEPT ![h] =
                [@ EXCEPT !.pc = "insert",
                          !.data = IF kind = "point"
                                   THEN [id |-> OrdId(Len(mp) + 1), status |-> status,
                                         external_reference |-> req[h].ref,
                                         payment_id |-> PayId(Len(mp) + 1)]
                                   ELSE [id |-> PayId(Len(mp) + 1), status |-> status,
                                         external_reference |-> req[h].ref,
                                         payment_id |-> NoId]]]
       \/ /\ Len(mp) < MaxMp
          /\ mp' = MpCreate(kind, status, req[h].ref)
          /\ req' = [req EXCEPT ![h] = Catch500(@)]
       \/ /\ req' = [req EXCEPT ![h] = Catch500(@)]
          /\ UNCHANGED mp
    /\ UNCHANGED <<orders, payments, webhookHits, now, secret, admitted>>

PointPost(h) == PaymentPost(h, "point", "point", "created")
PixPost(h) == PaymentPost(h, "pix", "pix", "pending")

PaymentInsert(h, op, row) ==
    /\ req[h].op = op /\ req[h].pc = "insert"
    /\ \/ /\ payments' = InsertPayment(row)
          /\ req' = [req EXCEPT ![h] = [@ EXCEPT !.pc = "update"]]
       \/ /\ req' = [req EXCEPT ![h] = Catch500(@)]
          /\ UNCHANGED payments
    /\ UNCHANGED <<orders, mp, webhookHits, now, secret, admitted>>

PointInsert(h) == PaymentInsert(h, "point", PointRow(req[h]))
PixInsert(h) == PaymentInsert(h, "pix", PixRow(req[h]))

PaymentUpdate(h, op) ==
    /\ req[h].op = op /\ req[h].pc = "update"
    /\ \/ /\ orders' = AwaitPayment(req[h].orderId)
          /\ req' = [req EXCEPT ![h] =
                Respond([@ EXCEPT !.before = orders[req[h].orderId].status], 200)]
       \/ /\ req' = [req EXCEPT ![h] = Catch500(@)]
          /\ UNCHANGED orders
    /\ UNCHANGED <<payments, mp, webhookHits, now, secret, admitted>>

PointUpdate(h) == PaymentUpdate(h, "point")
PixUpdate(h) == PaymentUpdate(h, "pix")

(***************************************************************************)
(* GET /mp/orders/:mpOrderId and POST /mp/orders/:mpOrderId/cancel         *)
(***************************************************************************)
\* The provider knows order `id` (only terminal payments are /v1/orders).
MpHasOrder(id) == \E k \in DOMAIN mp : id = OrdId(k) /\ mp[k].kind = "point"
MpOrderIndex(id) == CHOOSE k \in DOMAIN mp : id = OrdId(k)

PollStart(h, id) ==
    /\ Free(h)
    /\ req' = [req EXCEPT ![h] =
          [Idle EXCEPT !.op = "poll", !.pc = "get", !.dataId = id, !.calls = 1]]
    /\ UNCHANGED <<orders, payments, mp, webhookHits, now, secret, admitted>>

PollDone(h) ==
    /\ req[h].op = "poll" /\ req[h].pc = "get"
    /\ \/ /\ MpHasOrder(req[h].dataId)
          /\ req' = [req EXCEPT ![h] = Respond(@, 200)]
       \/ req' = [req EXCEPT ![h] = Catch500(@)]
    /\ UNCHANGED <<orders, payments, mp, webhookHits, now, secret, admitted>>

\* res.json(r.data): the handler hands the provider's answer on and issues
\* no statement, so the attempts after it are the attempts before it
\* (CancelPaymentsMarked: the attempts of the provider order marked canceled)
CancelPaymentsMarked(id) ==
    [j \in DOMAIN payments |->
        IF payments[j].mp_order_id = id
        THEN [payments[j] EXCEPT !.status = "canceled"] ELSE payments[j]]
CancelPayments(id) == payments

CancelStart(h, id) ==
    /\ Free(h)
    /\ req' = [req EXCEPT ![h] =
          [Idle EXCEPT !.op = "cancel", !.pc = "post", !.dataId = id, !.calls = 1]]
    /\ UNCHANGED <<orders, payments, mp, webhookHits, now, secret, admitted>>

CancelDone(h) ==
    /\ req[h].op = "cancel" /\ req[h].pc = "post"
    /\ \/ /\ MpHasOrder(req[h].dataId)
          /\ mp' = [mp EXCEPT ![MpOrderIndex(req[h].dataId)].status = "canceled"]
          /\ payments' = CancelPayments(req[h].dataId)
          /\ req' = [req EXCEPT ![h] = Respond(@, 200)]
       \/ /\ req' = [req EXCEPT ![h] = Catch500(@)]
          /\ UNCHANGED <<mp, payments>>
    /\ UNCHANGED <<orders, webhookHits, now, secret, admitted>>

(***************************************************************************)
(* POST /webhooks/mercadopago                                              *)
(***************************************************************************)
\* webhookRateLimit: the record of the key after this request
RateLimit(rec0) ==
    LET rec == IF rec0.has THEN rec0 ELSE [has |-> TRUE, t |-> now, n |-> 0]
        cur == IF now - rec.t > win THEN [rec EXCEPT !.t = now, !.n = 0] ELSE rec
    IN [cur EXCEPT !.n = @ + 1]

\* if (rec.n > max) return res.status(429)
OverLimit(rec) == rec.n > max

\* res.status(200).json({ ok: true }), the first statement of the handler
\* (AckLate: the statement moved after the processing)
AckLate(r) == r
Ack(r) == [r EXCEPT !.resp = 200]

\* if (secret) { if (got !== secret) return; }
\* (SecretAlwaysOk: the header never compared)
SecretAlwaysOk(hdr) == FALSE
SecretRejects(hdr) == secret # Absent /\ hdr # secret

\* body?.data?.id || body?.id
DataIdOf(body) == IF body.data_id # NoId THEN body.data_id ELSE body.id

\* if (!dataId) return
\* (NoDataIdIgnored: the test left out)
NoDataIdIgnored(dataId) == FALSE
NoDataId(dataId) == dataId = NoId

\* type === "payment" || type === "payments", with type = body.type || body.topic
IsPaymentEvent(body) ==
    LET type == IF body.type # Absent THEN body.type ELSE body.topic
    IN type = "payment" \/ type = "payments"

\* status.toLowerCase() === "approved" && externalRef
\* (ApprovedExact: the status compared as it came)
ApprovedExact(status, externalRef) == status = "approved" /\ externalRef # NoRef
Approved(status, externalRef) ==
    toLowerCase(status) = "approved" /\ externalRef # NoRef

\* UPDATE payments SET status = ?, raw_json = ? WHERE mp_order_id = ?
\* (UpdatePaymentsLogged: a row added for every event instead)
UpdatePaymentsLogged(rows, status, raw, id) ==
    Append(rows, [order_id |-> 1, provider |-> "event", mp_order_id |-> id,
                  mp_payment_id |-> id, status |-> status,
                  terminal_id |-> Absent, raw_json |-> raw])
UpdatePayments(rows, status, raw, id) ==
    [i \in DOMAIN rows |->
        IF rows[i].mp_order_id = id
        THEN [rows[i] EXCEPT !.status = status, !.raw_json = raw]
        ELSE rows[i]]

\* catch (e) { console.error(...) }
\* (WebhookRetry: the fetch issued again after a failure)
WebhookRetry(r) == [r EXCEPT !.pc = "fetch", !.calls = @ + 1, !.failed = TRUE]
WebhookCatch(r) == Finish([r EXCEPT !.failed = TRUE])

\* What the handler writes for event `id` once the provider has answered the
\* fetch with `data`, when no statement fails: the stores afterwards.
ProcessEvent(o, p, id, data) ==
    LET status == StringOr(data.status, "updated")
        externalRef == data.external_reference
        ord == SelectOrderByRef(o, externalRef)
    IN [payments |-> UpdatePayments(p, status, data, id),
        orders |-> IF Approved(status, externalRef) /\ ord # 0
                   THEN SetOrderStatus(o, ord, "paid") ELSE o]

\* The request reaches the route: rate limit, acknowledgment, secret, event.
\* `cap` bounds the hits one address makes within one window.
WebhookStart(h, ip, hdr, body, cap) ==
    /\ Free(h)
    /\ RateLimit(webhookHits[ip]).n <= cap
    /\ LET rec == RateLimit(webhookHits[ip])
           r == [Idle EXCEPT !.op = "webhook", !.hdr = hdr,
                             !.named = (body.data_id # NoId \/ body.id # NoId)]
           dataId == DataIdOf(body)
       IN /\ webhookHits' = [webhookHits EXCEPT ![ip] = rec]
          /\ IF OverLimit(rec)
             THEN /\ req' = [req EXCEPT ![h] = Respond(r, 429)]
                  /\ UNCHANGED admitted
             ELSE /\ admitted' = [admitted EXCEPT ![now] = @ + 1]
                  /\ req' = [req EXCEPT ![h] =
                        IF SecretRejects(hdr) THEN Finish(Ack(r))
                        ELSE IF NoDataId(dataId) THEN Finish(Ack(r))
                        ELSE IF IsPaymentEvent(body)
                             THEN [Ack(r) EXCEPT !.pc = "fetch", !.dataId = dataId,
                                                 !.calls = @ + 1]
                             ELSE Finish(Ack(r))]
    /\ UNCHANGED <<orders, payments, mp, now, secret>>

\* await axios.get(`/v1/payments/${dataId}`), then the UPDATE is issued
WebhookFetch(h) ==
    /\ req[h].op = "webhook" /\ req[h].pc = "fetch"
    /\ \/ \E k \in DOMAIN mp :
            /\ req[h].dataId = PayId(k)
            /\ req' = [req EXCEPT ![h] =
                  [@ EXCEPT !.pc = "updpay", !.data = MpPaymentData(k)]]
       \/ req' = [req EXCEPT ![h] = WebhookCatch(@)]
    /\ UNCHANGED <<orders, payments, mp, webhookHits, now, secret, admitted>>

\* await db.execute("UPDATE payments ..."), then the test for `approved`
WebhookUpdatePayments(h) ==
    /\ req[h].op = "webhook" /\ req[h].pc = "updpay"
    /\ \/ LET status == StringOr(req[h].data.status, "updated")
              externalRef == req[h].data.external_reference
          IN /\ payments' = UpdatePayments(payments, status, req[h].data, req[h].dataId)
             /\ req' = [req EXCEPT ![h] =
                   IF Approved(status, externalRef)
                   THEN [@ EXCEPT !.pc = "selord", !.ref = externalRef]
                   ELSE Finish(@)]
       \/ /\ req' = [req EXCEPT ![h] = WebhookCatch(@)]
          /\ UNCHANGED payments
    /\ UNCHANGED <<orders, mp, webhookHits, now, secret, admitted>>

\* await db.execute("SELECT * FROM orders WHERE external_ref = ?")
WebhookSelectOrder(h) ==
    /\ req[h].op = "webhook" /\ req[h].pc = "selord"
    /\ \/ LET ord == SelectOrderByRef(orders, req[h].ref)
          IN req' = [req EXCEPT ![h] =
               IF ord # 0 THEN [@ EXCEPT !.pc = "updord", !.ordId = ord]
               ELSE Finish(@)]
       \/ req' = [req EXCEPT ![h] = WebhookCatch(@)]
    /\ UNCHANGED <<orders, payments, mp, webhookHits, now, secret, admitted>>

\* await db.execute("UPDATE orders SET status = 'paid' WHERE id = ?")
WebhookUpdateOrder(h) ==
    /\ req[h].op = "webhook" /\ req[h].pc = "updord"
    /\ \/ /\ orders' = SetOrderStatus(orders, req[h].ordId, "paid")
          /\ req' = [req EXCEPT ![h] =
                Finish([@ EXCEPT !.before = orders[req[h].ordId].status])]
       \/ /\ req' = [req EXCEPT ![h] = WebhookCatch(@)]
          /\ UNCHANGED orders
    /\ UNCHANGED <<payments, mp, webhookHits, now, secret, admitted>>

\* Date.now() moves on; the history keeps the window that ends at the new now.
Tick(t) ==
    /\ t > now
    /\ now' = t
    /\ admitted' = [u \in Instants |-> IF u > t - win THEN admitted[u] ELSE 0]
    /\ UNCHANGED <<orders, payments, mp, req, webhookHits, secret>>

(***************************************************************************)
(* The server: any request at any time, the handlers interleaved.          *)
(***************************************************************************)
\* A request of the kiosk arrives, or a step of its handler.
ClientRequest(h, bodies) ==
    \/ \E body \in bodies : OrderStart(h, body)
    \/ \E body \in PointBodies : PointStart(h, body)
    \/ \E body \in PixBodies : PixStart(h, body)
    \/ \E id \in PathIds : PollStart(h, id)
    \/ \E id \in PathIds : CancelStart(h, id)

ClientStep(h) ==
    \/ OrderInsert(h)
    \/ PointSelect(h)
    \/ PointPost(h)
    \/ PointInsert(h)
    \/ PointUpdate(h)
    \/ PixSelect(h)
    \/ PixPost(h)
    \/ PixInsert(h)
    \/ PixUpdate(h)
    \/ PollDone(h)
    \/ CancelDone(h)

WebhookStep(h) ==
    \/ WebhookFetch(h)
    \/ WebhookUpdatePayments(h)
    \/ WebhookSelectOrder(h)
    \/ WebhookUpdateOrder(h)

Kiosk == {1}
Hooks == 2..MaxReq

Next ==
    \/ \E h \in Kiosk : ClientRequest(h, OneOrderBodies) \/ ClientStep(h)
    \/ \E h \in Hooks :
          \/ \E body \in WebhookBodies : WebhookStart(h, IP, Absent, body, MaxHits)
          \/ WebhookStep(h)
    \/ \E k \in 1..MaxMp : MpAdvance(k, "approved")

Spec == Init /\ [][Next]_vars

(***************************************************************************)
(* SpecOrders: order creation alone, with every reference and amount of    *)
(* the inputs, the requests of all slots running at once.                  *)
(***************************************************************************)
NextOrders ==
    \E h \in H :
        \/ \E body \in OrderBodies : OrderStart(h, body)
        \/ OrderInsert(h)

SpecOrders == Init /\ [][NextOrders]_vars

(***************************************************************************)
(* The state after POST /orders {externalRef: "A", amount: 19.90} and      *)
(* POST /payments/pix {orderId: 1}: Spec reaches it (SeedReached).  The    *)
(* specifications of the webhook start from it.                            *)
(***************************************************************************)
SeedOrders ==
    <<[external_ref |-> <<"A">>, status |-> "awaiting_payment", amount |-> 1990]>>
SeedData ==
    [id |-> PayId(1), status |-> "pending", external_reference |-> <<"A">>,
     payment_id |-> NoId]
SeedPayments ==
    <<[order_id |-> 1, provider |-> "pix", mp_order_id |-> PayId(1),
       mp_payment_id |-> PayId(1), status |-> "pending", terminal_id |-> Absent,
       raw_json |-> SeedData]>>
SeedMp == <<[kind |-> "pix", status |-> "pending", external_reference |-> <<"A">>]>>

InitSeed ==
    /\ orders = SeedOrders
    /\ payments = SeedPayments
    /\ mp = SeedMp
    /\ req = [h \in H |-> Idle]
    /\ webhookHits = [ip \in {IP} |-> NoRec]
    /\ now = 0
    /\ secret \in Secrets
    /\ admitted = [t \in Instants |-> 0]

SeedReached ==
    /\ orders = SeedOrders /\ payments = SeedPayments /\ mp = SeedMp
    /\ webhookHits = [ip \in {IP} |-> NoRec]

(***************************************************************************)
(* SpecHook: webhook deliveries of all slots running at once, the provider *)
(* moving the payment through every status of MpStatuses.                  *)
(***************************************************************************)
NextHook ==
    \/ \E h \in H :
          \/ \E hdr \in SecretHeaders, body \in WebhookBodies :
                WebhookStart(h, IP, hdr, body, MaxHits + 1)
          \/ WebhookStep(h)
    \/ \E k \in 1..MaxMp, s \in MpStatuses : MpAdvance(k, s)

SpecHook == InitSeed /\ [][NextHook]_vars

(***************************************************************************)
(* SpecRate: one address floods the webhook within one window, past the    *)
(* limit of webhookRateLimit.                                              *)
(***************************************************************************)
NextRate ==
    \/ \E hdr \in SecretHeaders, body \in WebhookBodies :
          WebhookStart(1, IP, hdr, body, max + MaxOver)
    \/ WebhookStep(1)
    \/ \E k \in 1..MaxMp : MpAdvance(k, "approved")

SpecRate == InitSeed /\ [][NextRate]_vars

(***************************************************************************)
(* SpecWindow: the clock moves past the window of webhookRateLimit while   *)
(* one address sends events that name no payment.                          *)
(***************************************************************************)
NextWindow ==
    \/ \E body \in NoIdBodies : WebhookStart(1, IP, Absent, body, max + MaxOver)
    \/ \E t \in Instants : Tick(t)

SpecWindow == Init /\ [][NextWindow]_vars

(***************************************************************************)
(* SpecTwin: the same payment event delivered once to every slot, the      *)
(* handlers interleaved; the payment's status at the provider is settled   *)
(* before the first delivery, so every fetch returns the same detail.      *)
(***************************************************************************)
TwinEvent == Event("payment", Absent, PayId(1), NoId)

NextTwin ==
    \/ \E h \in H : req[h].pc = "idle" /\ WebhookStart(h, IP, secret, TwinEvent, MaxReq)
    \/ \E h \in H : WebhookStep(h)
    \/ \E s \in MpStatuses : (\A h \in H : req[h].pc = "idle") /\ MpAdvance(1, s)

SpecTwin == InitSeed /\ [][NextTwin]_vars

(***************************************************************************)
(* SpecGet: the kiosk creates two orders and PIX or terminal payments for  *)
(* them in slot 1 while the other slots ask for orders.                    *)
(***************************************************************************)
TwoOrderBodies ==
    {[externalRef |-> Str(<<"A">>), amount |-> Num(1990)],
     [externalRef |-> Str(<<"B">>), amount |-> Num(1990)]}
GetIds == {0, 1, 2, 3}

\* A step of a handler that creates an order or a payment.
CreateStep(h) ==
    \/ OrderInsert(h)
    \/ PointSelect(h)
    \/ PointPost(h)
    \/ PointInsert(h)
    \/ PointUpdate(h)
    \/ PixSelect(h)
    \/ PixPost(h)
    \/ PixInsert(h)
    \/ PixUpdate(h)

NextGet ==
    \/ \E h \in Kiosk :
          \/ \E body \in TwoOrderBodies : OrderStart(h, body)
          \/ \E body \in PointBodies : PointStart(h, body)
          \/ \E body \in PixBodies : PixStart(h, body)
          \/ CreateStep(h)
    \/ \E h \in Hooks :
          \/ \E id \in GetIds : GetOrderStart(h, id)
          \/ GetOrderSelect(h)
          \/ GetOrderLatest(h)

SpecGet == Init /\ [][NextGet]_vars

(***************************************************************************)
(* SpecRace: PIX payments of one order and deliveries of the event of the  *)
(* first payment, in any slot, interleaved, in runs where no statement and *)
(* no provider call fails; the payment goes from pending to approved.      *)
(***************************************************************************)
InitRace ==
    /\ orders = [SeedOrders EXCEPT ![1].status = "created"]
    /\ payments = <<>>
    /\ mp = <<>>
    /\ req = [h \in H |-> Idle]
    /\ webhookHits = [ip \in {IP} |-> NoRec]
    /\ now = 0
    /\ secret \in Secrets
    /\ admitted = [t \in Instants |-> 0]

NextRace ==
    \/ \E h \in H :
          \/ PixStart(h, [orderId |-> 1])
          \/ PixSelect(h) /\ ~req'[h].failed
          \/ PixPost(h) /\ ~req'[h].failed
          \/ PixInsert(h) /\ ~req'[h].failed
          \/ PixUpdate(h) /\ ~req'[h].failed
          \/ WebhookStart(h, IP, secret, TwinEvent, MaxHits + 1)
          \/ WebhookFetch(h) /\ ~req'[h].failed
          \/ WebhookUpdatePayments(h) /\ ~req'[h].failed
          \/ WebhookSelectOrder(h) /\ ~req'[h].failed
          \/ WebhookUpdateOrder(h) /\ ~req'[h].failed
    \/ MpAdvance(1, "approved")

SpecRace == InitRace /\ [][NextRace]_vars

Running(h) == ~Free(h)
\* The step is one of the handler in slot h.
StepOf(h) == req'[h] # req[h]
PayOps == {"point", "pix"}

(***************************************************************************)
(* C1.  Once an order is `paid` it stays `paid`: no step takes the status  *)
(* of a paid order to another value.                                       *)
(***************************************************************************)
PaidStaysPaid ==
    [][\A i \in DOMAIN orders :
          orders[i].status = "paid" => orders'[i].status = "paid"]_vars

(***************************************************************************)
(* C2.  An order is `paid` only if a payment attempt linked to it (by      *)
(* order_id) has an approved status.                                       *)
(***************************************************************************)
PaidHasApprovedAttempt ==
    \A i \in DOMAIN orders :
        orders[i].status = "paid" =>
            \E j \in DOMAIN payments :
                /\ payments[j].order_id = i
                /\ toLowerCase(payments[j].status) = "approved"

(***************************************************************************)
(* C3.  A create-payment request that completes successfully leaves its    *)
(* order `awaiting_payment`, whatever the status was before; success comes *)
(* only from the step that writes the status; and the attempt it writes is *)
(* a new row after the rows there were, which stay as they are.            *)
(***************************************************************************)
AwaitingAfterAttempt ==
    [][\A h \in H :
          /\ (req'[h].op \in PayOps /\ StepOf(h) /\ req'[h].resp = 200) =>
                /\ req[h].op = req'[h].op /\ req[h].pc = "update"
                /\ req'[h].pc = "done"
                /\ orders'[req[h].orderId].status = "awaiting_payment"
          /\ (req[h].op \in PayOps /\ req[h].pc = "insert"
                 /\ req'[h].pc = "update") =>
                /\ Len(payments') = Len(payments) + 1
                /\ SubSeq(payments', 1, Len(payments)) = payments
                /\ payments'[Len(payments')].order_id = req[h].orderId]_vars

\* A second attempt succeeded on an order that was paid: two rows, and the
\* order awaits payment.
SecondAttemptOnPaidOrder ==
    \E h \in H :
        /\ req[h].op \in PayOps /\ req[h].pc = "done" /\ req[h].resp = 200
        /\ req[h].before = "paid"
        /\ Len(payments) = 2
        /\ payments[1].order_id = payments[2].order_id
        /\ orders[payments[1].order_id].status = "awaiting_payment"

(***************************************************************************)
(* C6.  A webhook event that names no payment (neither data.id nor id)     *)
(* ends the handler at once: no provider call, the stores unchanged.       *)
(***************************************************************************)
UnnamedEventNoEffect ==
    [][\A h \in H :
          (Free(h) /\ StepOf(h) /\ req'[h].op = "webhook" /\ ~req'[h].named) =>
              /\ req'[h].pc = "done" /\ req'[h].calls = 0
              /\ orders' = orders /\ payments' = payments /\ mp' = mp]_vars

\* Such an event was handled while there was an order it could have touched.
UnnamedEventHandled ==
    \E h \in H :
        /\ req[h].op = "webhook" /\ req[h].pc = "done" /\ ~req[h].named
        /\ req[h].resp = 200 /\ req[h].calls = 0
        /\ orders # <<>> /\ payments # <<>>

(***************************************************************************)
(* C10.  A failure while a webhook event is processed (the provider fetch  *)
(* or a statement of the store) ends the handler: the acknowledgment stays *)
(* as sent, no further provider call is issued, and the handler has        *)
(* changed no order, as the only step of it that changes one is its last   *)
(* and does not fail.                                                      *)
(***************************************************************************)
WebhookFailureSwallowed ==
    [][\A h \in H :
          (req[h].op = "webhook" /\ Running(h) /\ StepOf(h)) =>
              /\ ~req[h].failed
              /\ req'[h].failed =>
                    /\ req'[h].pc = "done"
                    /\ req'[h].resp = 200 /\ req[h].resp = 200
                    /\ req'[h].calls = req[h].calls
                    /\ orders' = orders
              /\ orders' # orders => (req'[h].pc = "done" /\ ~req'[h].failed)]_vars

\* The fetch of an approved payment of a waiting order failed.
WebhookFailed ==
    \E h \in H :
        /\ req[h].op = "webhook" /\ req[h].pc = "done" /\ req[h].failed
        /\ req[h].resp = 200 /\ req[h].calls = 1
        /\ \E i \in DOMAIN orders : orders[i].status = "awaiting_payment"
        /\ \E k \in DOMAIN mp : mp[k].status = "approved"

(***************************************************************************)
(* C4.  A webhook payment event whose fetched status is `approved` in any  *)
(* letter case, and whose external reference is that of an order, sets the *)
(* order to `paid`: the handler goes on from the attempt update to the     *)
(* order lookup and the order update, writing what ProcessEvent gives.     *)
(* Processing the same event with the same fetched detail once more gives  *)
(* the very stores the first processing left.                              *)
(***************************************************************************)
ApprovedSpellings == {"approved", "APPROVED", "Approved"}
OrderOf(data) ==
    {i \in DOMAIN orders : orders[i].external_ref = data.external_reference}

ApprovedEventPaysOnce ==
    /\ [][\A h \in H :
            (req[h].op = "webhook" /\ StepOf(h) /\ ~req'[h].failed) =>
                LET data == req[h].data
                    after == ProcessEvent(orders, payments, req[h].dataId, data)
                IN /\ req[h].pc = "updpay" =>
                         /\ payments' = after.payments /\ orders' = orders
                         /\ (data.status \in ApprovedSpellings /\ OrderOf(data) # {})
                                => req'[h].pc = "selord"
                   /\ req[h].pc = "selord" =>
                         /\ payments' = payments /\ orders' = orders
                         /\ OrderOf(data) # {} => req'[h].pc = "updord"
                   /\ req[h].pc = "updord" =>
                         /\ payments' = payments /\ orders' = after.orders
                         /\ req'[h].pc = "done"
                         /\ \A i \in OrderOf(data) : orders'[i].status = "paid"]_vars
    /\ [](\A k \in DOMAIN mp :
            LET data == MpPaymentData(k)
                once == ProcessEvent(orders, payments, PayId(k), data)
                twice == ProcessEvent(once.orders, once.payments, PayId(k), data)
            IN /\ data.status \in ApprovedSpellings =>
                     \A i \in OrderOf(data) : once.orders[i].status = "paid"
               /\ twice = once)

\* An event fetched as `APPROVED` was processed for an order already paid by
\* an earlier delivery: the order is paid, the attempt carries the status.
ApprovedEventReplayed ==
    \E h \in H :
        /\ req[h].op = "webhook" /\ req[h].pc = "done" /\ ~req[h].failed
        /\ req[h].before = "paid"
        /\ orders[1].status = "paid"
        /\ payments[1].status = "APPROVED"
        /\ mp[1].status = "APPROVED"

(***************************************************************************)
(* C5.  No two orders hold the same external_ref.  A create-order request  *)
(* with valid input is not rejected as invalid; its INSERT answers 409, and*)
(* writes nothing, when an order holds the trimmed reference, and otherwise*)
(* adds the order and answers 200 (500 only when the statement fails for   *)
(* another reason); so of the requests with one reference at most one      *)
(* succeeds.                                                               *)
(***************************************************************************)
OneOrderPerReference ==
    /\ [](\A i, j \in DOMAIN orders :
            i # j => orders[i].external_ref # orders[j].external_ref)
    /\ [](\A h \in H :
            (req[h].op = "order" /\ req[h].pc = "done" /\ req[h].want # NoRef)
                => req[h].resp # 400)
    /\ [](\A g, h \in H :
            (/\ g # h
             /\ req[g].op = "order" /\ req[g].pc = "done"
             /\ req[h].op = "order" /\ req[h].pc = "done"
             /\ req[g].want # NoRef /\ req[g].want = req[h].want)
                => ~(req[g].resp = 200 /\ req[h].resp = 200))
    /\ [][\A h \in H :
            (req[h].op = "order" /\ req[h].pc = "insert" /\ StepOf(h)) =>
                /\ req'[h].pc = "done"
                /\ IF \E i \in DOMAIN orders : orders[i].external_ref = req[h].want
                   THEN /\ orders' = orders
                        /\ \/ req'[h].resp = 409
                           \/ req'[h].resp = 500 /\ req'[h].failed
                   ELSE \/ /\ req'[h].resp = 200
                           /\ Len(orders') = Len(orders) + 1
                           /\ SubSeq(orders', 1, Len(orders)) = orders
                           /\ orders'[Len(orders')].external_ref = req[h].want
                           /\ orders'[Len(orders')].status = "created"
                        \/ /\ req'[h].resp = 500 /\ req'[h].failed
                           /\ orders' = orders]_vars

\* Two requests with the reference "A": one created the order, the other
\* got the conflict.
DuplicateAnswered ==
    \E g, h \in H :
        /\ req[g].op = "order" /\ req[g].pc = "done" /\ req[g].resp = 200
        /\ req[h].op = "order" /\ req[h].pc = "done" /\ req[h].resp = 409
        /\ req[g].want = <<"A">> /\ req[h].want = <<"A">>
        /\ Len(orders) = 1

(***************************************************************************)
(* C7.  As claimed: every webhook request is answered with the success     *)
(* acknowledgment.                                                         *)
(***************************************************************************)
EveryWebhookAcknowledged ==
    \A h \in H : (req[h].op = "webhook" /\ req[h].pc # "idle") => req[h].resp = 200

(***************************************************************************)
(* C7, amended.  A webhook request is answered 429 when it is beyond the   *)
(* limit of its window, and is then not reconciled; any other is answered  *)
(* 200 in the step it arrives in, so before its provider fetch returns and *)
(* before any store write; no later step of the handler changes the answer.*)
(***************************************************************************)
AdmittedWebhookAcknowledgedFirst ==
    [][\A h \in H :
          /\ (Free(h) /\ StepOf(h) /\ req'[h].op = "webhook") =>
                /\ req'[h].resp = IF webhookHits'[IP].n > max THEN 429 ELSE 200
                /\ req'[h].resp = 429 =>
                      /\ req'[h].pc = "done" /\ req'[h].calls = 0
                /\ orders' = orders /\ payments' = payments
          /\ (req[h].op = "webhook" /\ Running(h) /\ StepOf(h)) =>
                /\ req[h].resp = 200 /\ req'[h].resp = 200]_vars

\* A handler has set the order to paid, its answer sent.
ReconciledAfterAck ==
    \E h \in H :
        /\ req[h].op = "webhook" /\ req[h].pc = "done" /\ req[h].resp = 200
        /\ req[h].before = "awaiting_payment" /\ req[h].calls = 1
        /\ orders[1].status = "paid"

(***************************************************************************)
(* C8.  As claimed: with a secret configured, a request whose header is    *)
(* missing or differs is acknowledged with 200, and fetches and writes     *)
(* nothing.                                                                *)
(***************************************************************************)
BadSecret(h) == secret # Absent /\ req'[h].hdr # secret

BadSecretAckedAndDropped ==
    [][\A h \in H :
          (Free(h) /\ StepOf(h) /\ req'[h].op = "webhook" /\ BadSecret(h)) =>
              /\ req'[h].resp = 200
              /\ req'[h].pc = "done" /\ req'[h].calls = 0
              /\ orders' = orders /\ payments' = payments /\ mp' = mp]_vars

(***************************************************************************)
(* C8, amended.  With a secret configured, a request whose header is       *)
(* missing or differs fetches and writes nothing; it is acknowledged with  *)
(* 200, unless it is beyond the limit of its window and answered 429.      *)
(***************************************************************************)
BadSecretDropped ==
    [][\A h \in H :
          (Free(h) /\ StepOf(h) /\ req'[h].op = "webhook" /\ BadSecret(h)) =>
              /\ req'[h].resp = IF webhookHits'[IP].n > max THEN 429 ELSE 200
              /\ req'[h].pc = "done" /\ req'[h].calls = 0
              /\ orders' = orders /\ payments' = payments /\ mp' = mp]_vars

\* An event naming an approved payment of the waiting order came with a
\* wrong secret and was dropped.
BadSecretSeen ==
    \E h \in H :
        /\ secret # Absent
        /\ req[h].op = "webhook" /\ req[h].pc = "done" /\ req[h].hdr = "wrong"
        /\ req[h].named /\ req[h].resp = 200 /\ req[h].calls = 0
        /\ mp[1].status = "approved" /\ orders[1].status = "awaiting_payment"

(***************************************************************************)
(* C9.  Within any interval as long as the window, at most `max` webhook   *)
(* requests of one address are admitted: here the requests admitted after  *)
(* now - win, up to now.                                                   *)
(***************************************************************************)
RECURSIVE SumOver(_, _)
SumOver(f, S) ==
    IF S = {} THEN 0
    ELSE LET x == CHOOSE y \in S : TRUE IN f[x] + SumOver(f, S \ {x})

AdmittedInWindow == SumOver(admitted, {u \in Instants : u > now - win /\ u <= now})

AtMostMaxPerWindow == AdmittedInWindow <= max

(***************************************************************************)
(* C11.  When a webhook payment event for payment P has been processed, its*)
(* attempt update done without failure, every attempt whose mp_payment_id  *)
(* is P, of a terminal or of PIX, carries the fetched status and detail.   *)
(***************************************************************************)
AttemptsOfPaymentReconciled ==
    [][\A h \in H :
          (req[h].op = "webhook" /\ req[h].pc = "updpay" /\ StepOf(h)
              /\ ~req'[h].failed) =>
              \A j \in DOMAIN payments' :
                  payments'[j].mp_payment_id = req[h].dataId =>
                      /\ payments'[j].status = StringOr(req[h].data.status, "updated")
                      /\ payments'[j].raw_json = req[h].data]_vars

(***************************************************************************)
(* C12.  A create-order or create-payment request answered 400 (malformed  *)
(* input) or 404 (no such order) is answered in its first step, or in the  *)
(* step of its order lookup: it has issued no provider call, and no step   *)
(* of it up to the answer changes the orders, the attempts or the provider.*)
(***************************************************************************)
CreateOps == {"order", "point", "pix"}

RejectedRequestNoEffect ==
    [][\A h \in H :
          /\ (StepOf(h) /\ req'[h].op \in CreateOps /\ req'[h].pc = "done"
                 /\ req'[h].resp \in {400, 404}) =>
                /\ req'[h].calls = 0
                /\ orders' = orders /\ payments' = payments /\ mp' = mp
                /\ \/ Free(h)
                   \/ /\ req[h].op \in PayOps /\ req[h].pc = "select"
                      /\ req[h].calls = 0 /\ req'[h].resp = 404
          /\ (StepOf(h) /\ req'[h].op \in CreateOps /\ Free(h)) =>
                /\ req'[h].calls = 0
                /\ orders' = orders /\ payments' = payments /\ mp' = mp]_vars

\* A terminal payment was asked for an order that does not exist, while an
\* order, an attempt and a provider payment exist.
RejectedWithNotFound ==
    \E h \in H :
        /\ req[h].op = "point" /\ req[h].pc = "done" /\ req[h].resp = 404
        /\ req[h].calls = 0 /\ ~req[h].failed
        /\ orders # <<>> /\ payments # <<>> /\ mp # <<>>

(***************************************************************************)
(* C13.  A create-payment request whose provider call fails locally after  *)
(* the provider created the payment ends there: it answers 500, writes     *)
(* nothing and calls the provider no second time.  A webhook event for     *)
(* that payment, fetched as approved with the reference of the order, then *)
(* goes on to the order although no attempt row matches, and sets the      *)
(* order to `paid` when none of its statements fails.                      *)
(***************************************************************************)
\* The provider holds object k and no attempt row names it.
Untracked(k) ==
    \A j \in DOMAIN payments :
        /\ payments[j].mp_order_id \notin {OrdId(k), PayId(k)}
        /\ payments[j].mp_payment_id \notin {OrdId(k), PayId(k)}

ReconciliationCatchesUp ==
    /\ [][\A h \in H :
            /\ (req[h].op \in PayOps /\ StepOf(h) /\ mp' # mp /\ req'[h].failed) =>
                  /\ req[h].pc = "post" /\ req'[h].pc = "done"
                  /\ req'[h].resp = 500 /\ req'[h].calls = 1
                  /\ Len(mp') = Len(mp) + 1
                  /\ orders' = orders /\ payments' = payments
            /\ (req[h].op = "webhook" /\ StepOf(h) /\ ~req'[h].failed
                   /\ req[h].data.status \in ApprovedSpellings
                   /\ OrderOf(req[h].data) # {}
                   /\ \E k \in DOMAIN mp : req[h].dataId = PayId(k) /\ Untracked(k)) =>
                  /\ req[h].pc = "updpay" =>
                        payments' = payments /\ req'[h].pc = "selord"
                  /\ req[h].pc = "selord" => req'[h].pc = "updord"
                  /\ req[h].pc = "updord" =>
                        /\ req'[h].pc = "done"
                        /\ \A i \in OrderOf(req[h].data) :
                              orders'[i].status = "paid"]_vars
    /\ [](\A k \in DOMAIN mp :
            Untracked(k) =>
               LET data == [MpPaymentData(k) EXCEPT !.status = "approved"]
               IN \A i \in OrderOf(data) :
                     ProcessEvent(orders, payments, PayId(k), data).orders[i].status
                        = "paid")
    /\ [](\A h \in H : req[h].op \in PayOps => req[h].calls <= 1)

\* The creation failed with the payment created at the provider and no row
\* written; a webhook event then took the order from `created` to `paid`.
CaughtUpAfterTimeout ==
    /\ \E h \in H :
          /\ req[h].op \in PayOps /\ req[h].pc = "done" /\ req[h].failed
          /\ req[h].resp = 500 /\ req[h].calls = 1
    /\ \E h \in H :
          /\ req[h].op = "webhook" /\ req[h].pc = "done" /\ ~req[h].failed
          /\ req[h].before = "created"
    /\ Len(mp) = 1 /\ mp[1].status = "approved"
    /\ payments = <<>>
    /\ orders[1].status = "paid"

(***************************************************************************)
(* C14.  Two deliveries of one payment event, their fetches returning the  *)
(* same detail, interleaved in every way: at every moment the stores are   *)
(* those of before the event or hold what a single delivery writes; when   *)
(* both handlers have ended without a fault the stores are those a single  *)
(* delivery leaves; and whatever the other handler has done, the next      *)
(* statement of a handler can go through (no step fails for the other's    *)
(* sake).                                                                  *)
(***************************************************************************)
OneDelivery == ProcessEvent(SeedOrders, SeedPayments, PayId(1), MpPaymentData(1))

TwinDeliveriesAsOne ==
    /\ orders \in {SeedOrders, OneDelivery.orders}
    /\ payments \in {SeedPayments, OneDelivery.payments}
    /\ (\A h \in H : req[h].pc = "done" /\ ~req[h].failed) =>
          /\ orders = OneDelivery.orders
          /\ payments = OneDelivery.payments
    /\ \A h \in H :
          (req[h].op = "webhook" /\ Running(h)) =>
              ENABLED (WebhookStep(h) /\ ~req'[h].failed)

\* Both handlers have fetched the approved payment and written the attempt,
\* and both are about to write the order.
TwinDeliveriesInFlight ==
    /\ \A h \in H : req[h].op = "webhook" /\ req[h].pc = "updord"
    /\ payments[1].status = "approved"
    /\ orders[1].status = "awaiting_payment"

(***************************************************************************)
(* C15.  GET /orders/:id changes nothing.  For an id that no order has it  *)
(* answers 404.  For an order it answers 200 with that order and, of the   *)
(* attempts whose order_id is the order's, the one with the greatest id,   *)
(* or null (0) when the order has none.                                    *)
(***************************************************************************)
AttemptsOf(id) == {j \in DOMAIN payments : payments[j].order_id = id}

GetOrderReturnsLatest ==
    [][\A h \in H :
          (StepOf(h) /\ req'[h].op = "get") =>
              /\ orders' = orders /\ payments' = payments /\ mp' = mp
              /\ (req[h].op = "get" /\ req[h].pc = "select" /\ ~req'[h].failed) =>
                    IF req[h].orderId \in DOMAIN orders
                    THEN req'[h].pc = "latest"
                    ELSE req'[h].pc = "done" /\ req'[h].resp = 404
              /\ (req[h].op = "get" /\ req[h].pc = "latest" /\ ~req'[h].failed) =>
                    /\ req'[h].pc = "done" /\ req'[h].resp = 200
                    /\ req[h].orderId \in DOMAIN orders
                    /\ req'[h].got.order = req[h].orderId
                    /\ IF AttemptsOf(req[h].orderId) = {}
                       THEN req'[h].got.payment = 0
                       ELSE /\ req'[h].got.payment \in AttemptsOf(req[h].orderId)
                            /\ \A k \in AttemptsOf(req[h].orderId) :
                                  k <= req'[h].got.payment]_vars

\* Order 1 was returned with its attempt, the first row, while the second
\* and later row is an attempt of order 2.
GetOrderSkipsOtherOrder ==
    \E h \in H :
        /\ req[h].op = "get" /\ req[h].pc = "done" /\ req[h].resp = 200
        /\ req[h].got = [order |-> 1, payment |-> 1]
        /\ Len(payments) = 2
        /\ payments[1].order_id = 1 /\ payments[2].order_id = 2

(***************************************************************************)
(* C16.  The status of an order is `created`, `awaiting_payment` or `paid`,*)
(* and every change of it is `created` to `awaiting_payment` or            *)
(* `awaiting_payment` to `paid`.                                           *)
(***************************************************************************)
OrderStatuses == {"created", "awaiting_payment", "paid"}
ChainSteps == {<<"created", "awaiting_payment">>, <<"awaiting_payment", "paid">>}

StatusFollowsChain ==
    /\ [](\A i \in DOMAIN orders : orders[i].status \in OrderStatuses)
    /\ [][\A i \in DOMAIN orders :
            orders'[i].status # orders[i].status =>
                <<orders[i].status, orders'[i].status>> \in ChainSteps]_vars

(***************************************************************************)
(* C17.  No step of GET /mp/orders/:id or of POST /mp/orders/:id/cancel    *)
(* changes an order or an attempt, whatever the provider answers: the      *)
(* cancellation takes effect at the provider only.                         *)
(***************************************************************************)
ProxyOps == {"poll", "cancel"}

PassThroughsKeepStores ==
    [][\A h \in H :
          (StepOf(h) /\ req'[h].op \in ProxyOps) =>
              /\ orders' = orders /\ payments' = payments
              /\ mp' # mp =>
                    /\ req[h].op = "cancel" /\ req'[h].resp = 200
                    /\ \E k \in DOMAIN mp :
                          /\ req[h].dataId = OrdId(k)
                          /\ mp'[k].status = "canceled"]_vars

\* The provider order of a terminal attempt was cancelled: the order still
\* awaits payment and the attempt holds the status of its creation.
CancelledAtProvider ==
    \E h \in H :
        /\ req[h].op = "cancel" /\ req[h].pc = "done" /\ req[h].resp = 200
        /\ Len(mp) >= 1 /\ Len(payments) >= 1 /\ Len(orders) >= 1
        /\ mp[1].status = "canceled"
        /\ payments[1].mp_order_id = OrdId(1) /\ payments[1].status = "created"
        /\ orders[1].status = "awaiting_payment"

\* The attempt rows that the update of an event with data id `id` matches.
MatchedBy(id) == {j \in DOMAIN payments : payments[j].mp_order_id = id}

\* Whenever a handler is about to update the attempts of an event that
\* matches no row, the statement can go through.
ZeroMatchGoesThrough ==
    \A h \in H :
        (req[h].op = "webhook" /\ req[h].pc = "updpay"
            /\ MatchedBy(req[h].dataId) = {}) =>
            ENABLED (WebhookUpdatePayments(h) /\ ~req'[h].failed)

(***************************************************************************)
(* C18.  No two attempt rows hold the same mp_order_id, unless it is the   *)
(* empty one that no event matches; so the attempt update of a webhook     *)
(* event matches, and changes, at most one row.  When it matches none it   *)
(* changes nothing, it can still go through, and having gone through it    *)
(* continues to the order for an approved payment.                         *)
(***************************************************************************)
AtMostOneAttemptMatched ==
    /\ []ZeroMatchGoesThrough
    /\ [](\A i, j \in DOMAIN payments :
            (i # j /\ payments[i].mp_order_id = payments[j].mp_order_id)
                => payments[i].mp_order_id = NoId)
    /\ [](\A h \in H :
            (req[h].op = "webhook" /\ req[h].pc = "updpay") =>
                /\ req[h].dataId # NoId
                /\ Cardinality(MatchedBy(req[h].dataId)) <= 1)
    /\ [][\A h \in H :
            (req[h].op = "webhook" /\ req[h].pc = "updpay" /\ StepOf(h)
                /\ ~req'[h].failed) =>
                /\ Len(payments') = Len(payments)
                /\ Cardinality({j \in DOMAIN payments :
                                   payments'[j] # payments[j]}) <= 1
                /\ MatchedBy(req[h].dataId) = {} =>
                      /\ payments' = payments
                      /\ req'[h].pc =
                            IF req[h].data.status \in ApprovedSpellings
                               /\ req[h].data.external_reference # NoRef
                            THEN "selord" ELSE "done"]_vars

\* A terminal attempt and a PIX attempt of one order; an event for the
\* payment of the terminal attempt matched no row and the order was paid.
ZeroMatchPaid ==
    /\ Len(payments) = 2 /\ Len(mp) = 2
    /\ payments[1].provider = "mp_point_v1_orders" /\ payments[1].status = "created"
    /\ payments[2].provider = "pix" /\ payments[2].status = "pending"
    /\ mp[1].status = "approved" /\ mp[2].status = "pending"
    /\ orders[1].status = "paid"
    /\ \E h \in H :
          /\ req[h].op = "webhook" /\ req[h].pc = "done" /\ ~req[h].failed
          /\ req[h].before = "awaiting_payment"

(***************************************************************************)
(* C19.  When the provider call of a create-payment request fails, the     *)
(* request ends with 500 in that step: no attempt row is written, no order *)
(* changes, and the call is not issued again.  Up to the call the request  *)
(* has written nothing, and a request calls the provider at most once.     *)
(***************************************************************************)
GatewayFailureLeavesNoTrace ==
    /\ [][\A h \in H :
            /\ (req[h].op \in PayOps /\ req[h].pc = "post" /\ StepOf(h)
                   /\ req'[h].failed) =>
                  /\ req'[h].pc = "done" /\ req'[h].resp = 500
                  /\ req[h].calls = 1 /\ req'[h].calls = 1
                  /\ payments' = payments /\ orders' = orders
            /\ (req'[h].op \in PayOps /\ StepOf(h)
                   /\ req'[h].pc \in {"select", "post"}) =>
                  /\ payments' = payments /\ orders' = orders /\ mp' = mp]_vars
    /\ [](\A h \in H :
            req[h].op \in PayOps =>
                /\ req[h].calls <= 1
                /\ (req[h].pc = "done" /\ req[h].resp = 200) => ~req[h].failed)

\* The provider refused the call for a new order: 500, and nothing anywhere.
GatewayRefused ==
    /\ \E h \in H :
          /\ req[h].op \in PayOps /\ req[h].pc = "done" /\ req[h].failed
          /\ req[h].resp = 500 /\ req[h].calls = 1
    /\ mp = <<>> /\ payments = <<>>
    /\ Len(orders) = 1 /\ orders[1].status = "created"

(***************************************************************************)
(* C20.  When a create-payment request ends, with success or with an       *)
(* error, no attempt row of its order is left with the order `created`.    *)
(***************************************************************************)
AttemptAndStatusTogether ==
    [][\A h \in H :
          (req[h].op \in PayOps /\ Running(h) /\ StepOf(h) /\ req'[h].pc = "done") =>
              \A j \in DOMAIN payments' :
                  payments'[j].order_id = req[h].orderId =>
                      orders'[req[h].orderId].status # "created"]_vars

(***************************************************************************)
(* C21.  Once every handler has finished, the status stored for a payment  *)
(* is the one most recently obtained from the provider.  In SpecRace the   *)
(* payment goes from pending to approved and no handler fails, and a       *)
(* webhook handler that reached the order update (its `before` is set) has *)
(* fetched `approved`: then the most recent result is `approved`, whatever *)
(* was obtained before it, and the attempt of the payment holds it.        *)
(***************************************************************************)
StoredStatusIsLatestFetched ==
    ((\A h \in H : Free(h))
        /\ \E h \in H : req[h].op = "webhook" /\ req[h].pc = "done"
                          /\ req[h].before # "") =>
        \A j \in DOMAIN payments :
            payments[j].mp_payment_id = PayId(1) =>
                toLowerCase(payments[j].status) = "approved"

====
